---- MODULE Spec2Model ----
(***************************************************************************)
(* Molecular Data Explorer (src/app.py): one Streamlit script run (a       *)
(* "rendering pass") and the five fetch helpers it calls.                  *)
(*                                                                         *)
(* The remote service is the environment: every requests.get is answered   *)
(* by a response the actions draw from finite sets.  A response either    *)
(* makes requests.get raise, or carries a text that is not JSON, or        *)
(* carries a JSON body.  JSON objects are functions from a set of keys     *)
(* (an absent key is a key outside DOMAIN), JSON arrays are sequences.     *)
(* Numbers are integers; the mass unit is 1.                               *)
(***************************************************************************)
EXTENDS Integers, Sequences, FiniteSets, TLC

VARIABLES
    pc,          \* position of the script run
    col,         \* the column (1: Compound 1, 2: Compound 2) being handled
    search,      \* search1 / search2: the typed text of each column
    suggestions, \* suggestions1 / suggestions2
    compound,    \* compound1 / compound2
    data,        \* display_info's local `data`
    fetched,     \* the response each column's property request received
    requests,    \* every remote request issued in this pass, in order
    out,         \* every element rendered in this pass, in order
    fn,          \* the helper called on its own (function specifications)
    arg,         \* its arguments and the responses it will receive
    ret          \* what it returned and the requests it issued

vars == <<pc, col, search, suggestions, compound, data, fetched, requests, out,
          fn, arg, ret>>

-----------------------------------------------------------------------------
(* Python values *)

EmptyDict == [k \in {} |-> 0]

JNull == [t |-> "null", n |-> 0, s |-> ""]

JNum(n) == [t |-> "num", n |-> n, s |-> ""]

JStr(s) == [t |-> "str", n |-> 0, s |-> s]

PyNone == [t |-> "none", d |-> EmptyDict]

PyDict(d) == [t |-> "dict", d |-> d]

\* dict.get(key, default)
Get(d, key, default) == IF key \in DOMAIN d THEN d[key] ELSE default

\* truth value of a JSON scalar: None, 0 and "" are false
Truthy(v) == CASE v.t = "null" -> FALSE
               [] v.t = "num" -> v.n # 0
               [] v.t = "str" -> v.s # ""

\* `not data` for display_info's data: None and the empty dict are false
NotData(v) == v.t = "none" \/ DOMAIN v.d = {}

Max(a, b) == IF a >= b THEN a ELSE b

\* str.lower() on the titles of the model
lower(s) == CASE s = "Water" -> "water"
              [] s = "WATER" -> "water"
              [] s = "Ethanol" -> "ethanol"
              [] s = "Methanol" -> "methanol"
              [] s = "Ammonia" -> "ammonia"
              [] s = "Methane" -> "methane"
              [] s = "Neon" -> "neon"
              [] s = "Oxidane" -> "oxidane"
              [] OTHER -> s

\* str.capitalize() on the compound names of the model
capitalize(s) == CASE s = "water" -> "Water"
                   [] s = "aspirin" -> "Aspirin"
                   [] s = "zzzqqqxx123" -> "Zzzqqqxx123"
                   [] OTHER -> s

\* the strings float() and int() accept, with their values
NumericStrings == {"18", "2"}

StrValue(s) == CASE s = "18" -> 18
                 [] s = "2" -> 2
                 [] OTHER -> 0

Result(raised, detail, val) == [raised |-> raised, detail |-> detail, val |-> val]

\* float(v) and int(v): a number converts, a string converts when it spells
\* a number and raises ValueError otherwise, None raises TypeError
ToNumber(v) ==
    CASE v.t = "num" -> Result(FALSE, "", v.n)
      [] v.t = "str" /\ v.s \in NumericStrings -> Result(FALSE, "", StrValue(v.s))
      [] v.t = "str" /\ v.s \notin NumericStrings ->
            Result(TRUE, "could not convert string to float", 0)
      [] v.t = "null" -> Result(TRUE, "argument must be a string or a number", 0)

-----------------------------------------------------------------------------
(* Remote responses and requests *)

RaiseResp(detail) ==
    [kind |-> "raise", detail |-> detail, body |-> EmptyDict, text |-> ""]

TextResp(text) ==
    [kind |-> "notjson", detail |-> "Expecting value", body |-> EmptyDict, text |-> text]

JsonResp(body) ==
    [kind |-> "json", detail |-> "", body |-> body, text |-> "json"]

Req(kind, name, lo, up, cid) ==
    [kind |-> kind, name |-> name, lower |-> lo, upper |-> up, cid |-> cid]

\* requests.get(url).json(): raises when the request raises or the text is
\* not JSON
JsonOf(resp) ==
    CASE resp.kind = "raise" -> Result(TRUE, resp.detail, EmptyDict)
      [] resp.kind = "notjson" -> Result(TRUE, resp.detail, EmptyDict)
      [] resp.kind = "json" -> Result(FALSE, "", resp.body)

\* requests.get(cid_url).json()["IdentifierList"]["CID"][0]
CidOf(resp) ==
    LET j == JsonOf(resp) IN
    IF j.raised THEN Result(TRUE, j.detail, 0)
    ELSE IF "IdentifierList" \notin DOMAIN j.val THEN Result(TRUE, "'IdentifierList'", 0)
    ELSE IF "CID" \notin DOMAIN j.val.IdentifierList THEN Result(TRUE, "'CID'", 0)
    ELSE IF j.val.IdentifierList.CID = <<>> THEN Result(TRUE, "list index out of range", 0)
    ELSE Result(FALSE, "", j.val.IdentifierList.CID[1])

-----------------------------------------------------------------------------
(* The fetch helpers.  Each takes the responses its requests will receive   *)
(* and yields [ret, reqs]: the returned value and the requests issued.      *)

Call(r, reqs) == [ret |-> r, reqs |-> reqs]

get_suggestions(query, resp) ==
    LET j == JsonOf(resp)
        dictionary == Get(j.val, "dictionary", EmptyDict)
    IN  Call(IF j.raised THEN <<>> ELSE Get(dictionary, "compound", <<>>),
             <<Req("autocomplete", query, 0, 0, 0)>>)

fetch_pubchem_data(compound_name, resp) ==
    LET j == JsonOf(resp)
        r == IF j.raised THEN PyNone
             ELSE IF "PropertyTable" \notin DOMAIN j.val THEN PyNone
             ELSE IF "Properties" \notin DOMAIN j.val.PropertyTable THEN PyNone
             ELSE IF j.val.PropertyTable.Properties = <<>> THEN PyNone
             ELSE PyDict(j.val.PropertyTable.Properties[1])
    IN  Call(r, <<Req("property", compound_name, 0, 0, 0)>>)

-----------------------------------------------------------------------------
(* suggest_similar *)

MassWindow == 10

MaxTitles == 5

\* every list of n distinct elements of S
RECURSIVE Arrangements(_, _)
Arrangements(S, n) ==
    IF n = 0 THEN {<<>>}
    ELSE UNION {{<<x>> \o t : t \in Arrangements(S \ {x}, n - 1)} : x \in S}

\* list(a_set)[:MaxTitles]: the set in any order, cut to its first MaxTitles
ListOfSetCut(S) ==
    Arrangements(S, IF Cardinality(S) <= MaxTitles THEN Cardinality(S) ELSE MaxTitles)

\* the weight coerced as the chart coerces it: float(weight or 0)
Arith_Coerce(v) ==
    IF v.t = "str" /\ v.s \in NumericStrings THEN Result(FALSE, "", StrValue(v.s))
    ELSE IF v.t = "num" THEN Result(FALSE, "", v.n)
    ELSE IF v.t = "null" \/ v.s = "" THEN Result(FALSE, "", 0)
    ELSE Result(TRUE, "could not convert string to float", 0)

\* the operand of `weight - 10` and `weight + 10`: arithmetic on anything
\* but a number raises TypeError
Arith(v) ==
    IF v.t = "num" THEN Result(FALSE, "", v.n)
    ELSE Result(TRUE, "unsupported operand type(s) for -", 0)

\* the window without its floor
WindowLower_NoFloor(weight) == weight - MassWindow

\* the lower bound of the mass window
WindowLower(weight) == Max(0, weight - MassWindow)

WindowUpper(weight) == weight + MassWindow

\* the own title compared as written, not in lower case
ItemStep_ExactCase(item, compound_data) ==
    LET t == Get(item, "Title", JStr(""))
        own == Get(compound_data, "Title", JStr(""))
    IN  IF t.t # "str" THEN Result(TRUE, "object has no attribute 'lower'", FALSE)
        ELSE IF own.t # "str" THEN Result(TRUE, "object has no attribute 'lower'", FALSE)
        ELSE IF t.s = own.s THEN Result(FALSE, "", FALSE)
        ELSE IF "Title" \notin DOMAIN item THEN Result(TRUE, "'Title'", FALSE)
        ELSE Result(FALSE, "", TRUE)

\* item.get("Title","").lower() != compound_data.get("Title", "").lower()
\* then item["Title"]: what evaluating one item of the comprehension does
ItemStep(item, compound_data) ==
    LET t == Get(item, "Title", JStr(""))
        own == Get(compound_data, "Title", JStr(""))
    IN  IF t.t # "str" THEN Result(TRUE, "object has no attribute 'lower'", FALSE)
        ELSE IF own.t # "str" THEN Result(TRUE, "object has no attribute 'lower'", FALSE)
        ELSE IF lower(t.s) = lower(own.s) THEN Result(FALSE, "", FALSE)
        ELSE IF "Title" \notin DOMAIN item THEN Result(TRUE, "'Title'", FALSE)
        ELSE Result(FALSE, "", TRUE)

\* {item["Title"] for item in props if ...}
TitleSet(props, compound_data) ==
    IF \E i \in 1..Len(props) : ItemStep(props[i], compound_data).raised
    THEN Result(TRUE, "comprehension", {})
    ELSE Result(FALSE, "",
                {props[i].Title.s : i \in {k \in 1..Len(props) :
                                            ItemStep(props[k], compound_data).val}})

\* the set of [ret, reqs] a call can yield (the order of list(set) is not
\* fixed by the language)
suggest_similar(compound_data, resp) ==
    LET weight == Arith(Get(compound_data, "MolecularWeight", JNum(0))) IN
    IF weight.raised THEN {Call(<<>>, <<>>)}
    ELSE
      LET rq == <<Req("similar", "", WindowLower(weight.val), WindowUpper(weight.val), 0)>>
          j == JsonOf(resp)
      IN  IF j.raised THEN {Call(<<>>, rq)}
          ELSE IF "PropertyTable" \notin DOMAIN j.val THEN {Call(<<>>, rq)}
          ELSE IF "Properties" \notin DOMAIN j.val.PropertyTable THEN {Call(<<>>, rq)}
          ELSE LET ts == TitleSet(j.val.PropertyTable.Properties, compound_data) IN
               IF ts.raised THEN {Call(<<>>, rq)}
               ELSE {Call(titles, rq) : titles \in ListOfSetCut(ts.val)}

-----------------------------------------------------------------------------
(* fetch_safety_info *)

NoSafetyData == "No safety data available."

SafetyHeading == "Safety and Hazards"

\* the loop without its test of the heading
RECURSIVE ScanSections_AnyHeading(_)
ScanSections_AnyHeading(sections) ==
    IF sections = <<>> THEN NoSafetyData
    ELSE
      LET section == Head(sections)
          info == Get(section, "Information", <<>>)
          value == IF info = <<>> THEN <<>>
                   ELSE Get(Get(info[1], "Value", EmptyDict), "StringWithMarkup", <<>>)
      IN  IF info # <<>> /\ value # <<>>
          THEN Get(value[1], "String", NoSafetyData)
          ELSE ScanSections_AnyHeading(Tail(sections))

\* the loop returning the last text value of the entry, not the first
RECURSIVE ScanSections_LastValue(_)
ScanSections_LastValue(sections) ==
    IF sections = <<>> THEN NoSafetyData
    ELSE
      LET section == Head(sections)
          info == Get(section, "Information", <<>>)
          value == IF info = <<>> THEN <<>>
                   ELSE Get(Get(info[1], "Value", EmptyDict), "StringWithMarkup", <<>>)
      IN  IF Get(section, "TOCHeading", "") = SafetyHeading /\ info # <<>> /\ value # <<>>
          THEN Get(value[Len(value)], "String", NoSafetyData)
          ELSE ScanSections_LastValue(Tail(sections))

\* the for loop over the sections: the first section with the heading, a
\* non-empty Information and a non-empty StringWithMarkup in its first entry
\* returns; every other section is passed over
RECURSIVE ScanSections(_)
ScanSections(sections) ==
    IF sections = <<>> THEN NoSafetyData
    ELSE
      LET section == Head(sections)
          info == Get(section, "Information", <<>>)
          value == IF info = <<>> THEN <<>>
                   ELSE Get(Get(info[1], "Value", EmptyDict), "StringWithMarkup", <<>>)
      IN  IF Get(section, "TOCHeading", "") = SafetyHeading /\ info # <<>> /\ value # <<>>
          THEN Get(value[1], "String", NoSafetyData)
          ELSE ScanSections(Tail(sections))

fetch_safety_info(compound_name, cidResp, docResp) ==
    LET c == CidOf(cidResp)
        cidReq == Req("cids", compound_name, 0, 0, 0)
    IN  IF c.raised THEN Call(NoSafetyData, <<cidReq>>)
        ELSE
          LET j == JsonOf(docResp)
              rq == <<cidReq, Req("hazard", "", 0, 0, c.val)>>
          IN  IF j.raised THEN Call(NoSafetyData, rq)
              ELSE Call(ScanSections(Get(Get(j.val, "Record", EmptyDict), "Section", <<>>)),
                        rq)

-----------------------------------------------------------------------------
(* render_3d *)

ErrorFragment(detail) ==
    [kind |-> "error", style |-> "color:red", model |-> "", detail |-> detail]

ViewerMarkup(sdf_data) ==
    [kind |-> "viewer", style |-> "stick", model |-> sdf_data, detail |-> ""]

\* a structure-file request that raises is taken for an empty file
render_3d_EmptyFile(compound_name, cidResp, sdfResp, view) ==
    LET c == CidOf(cidResp)
        cidReq == Req("cids", compound_name, 0, 0, 0)
    IN  IF c.raised THEN Call(ErrorFragment(c.detail), <<cidReq>>)
        ELSE
          LET rq == <<cidReq, Req("sdf", "", 0, 0, c.val)>> IN
          IF view.raised THEN Call(ErrorFragment(view.detail), rq)
          ELSE Call(ViewerMarkup(sdfResp.text), rq)

\* view is what building the py3Dmol viewer does: it raises (raised, detail)
\* or it does not
render_3d(compound_name, cidResp, sdfResp, view) ==
    LET c == CidOf(cidResp)
        cidReq == Req("cids", compound_name, 0, 0, 0)
    IN  IF c.raised THEN Call(ErrorFragment(c.detail), <<cidReq>>)
        ELSE
          LET rq == <<cidReq, Req("sdf", "", 0, 0, c.val)>> IN
          IF sdfResp.kind = "raise" THEN Call(ErrorFragment(sdfResp.detail), rq)
          ELSE IF view.raised THEN Call(ErrorFragment(view.detail), rq)
          ELSE Call(ViewerMarkup(sdfResp.text), rq)

-----------------------------------------------------------------------------
(* The script run: what the user types and what the service answers *)

Cols == {1, 2}

TypedNames == {"", "water", "zzzqqqxx123"}

AutoResps ==
    { RaiseResp("ConnectionError"),
      JsonResp(EmptyDict),
      JsonResp([dictionary |-> [compound |-> <<"water", "aspirin">>]]) }

RecFull ==
    [MolecularFormula |-> JStr("H2O"), MolecularWeight |-> JNum(18), Title |-> JStr("Water"),
     XLogP |-> JNum(2), HBondDonorCount |-> JNum(1), HBondAcceptorCount |-> JNum(1)]

RecLight ==
    [MolecularWeight |-> JNum(4), Title |-> JStr("Water"), XLogP |-> JNum(0)]

RecStringWeight ==
    [MolecularWeight |-> JStr("18"), Title |-> JStr("Water"), XLogP |-> JNull,
     HBondDonorCount |-> JStr("2"), HBondAcceptorCount |-> JStr("")]

RecNullWeight ==
    [MolecularWeight |-> JNull, Title |-> JStr("Water"), HBondDonorCount |-> JNum(0)]

RecTextLogP ==
    [MolecularWeight |-> JNum(18), Title |-> JStr("Water"), XLogP |-> JStr("N/A")]

RecTextCount ==
    [Title |-> JStr("Water"), HBondAcceptorCount |-> JStr("n/a")]

PageRecords ==
    {RecFull, RecLight, RecStringWeight, RecNullWeight, RecTextLogP, RecTextCount}

PropertyTableOf(props) == JsonResp([PropertyTable |-> [Properties |-> props]])

Unresolved ==
    { RaiseResp("ConnectionError"),
      TextResp("<html>503</html>"),
      JsonResp([Fault |-> EmptyDict]),
      JsonResp([PropertyTable |-> EmptyDict]),
      PropertyTableOf(<<>>) }

PropResps ==
    Unresolved \cup {PropertyTableOf(<<r>>) : r \in PageRecords \cup {EmptyDict}}

PageSimilarResps ==
    { RaiseResp("ConnectionError"),
      PropertyTableOf(<<[Title |-> JStr("water")]>>),
      PropertyTableOf(<<[Title |-> JStr("Water")], [Title |-> JStr("Oxidane")],
                        [Title |-> JStr("Neon")]>>) }

CidFound == JsonResp([IdentifierList |-> [CID |-> <<962>>]])

CidFault == JsonResp([Fault |-> EmptyDict])

PageCidResps == {CidFound, CidFault}

Markup(s) == [String |-> s]

Entry(markups) == [Value |-> [StringWithMarkup |-> markups]]

Section(heading, info) == [TOCHeading |-> heading, Information |-> info]

DocOf(sections) == JsonResp([Record |-> [Section |-> sections]])

PageDocResps ==
    { RaiseResp("ConnectionError"),
      DocOf(<<Section("Names and Identifiers", <<Entry(<<Markup("Oxidane")>>)>>)>>),
      DocOf(<<Section(SafetyHeading, <<Entry(<<Markup("Irritant")>>)>>)>>) }

PageSdfResps == {RaiseResp("ConnectionError"), TextResp("sdf: 3 atoms")}

ViewOk == Result(FALSE, "", 0)

ViewRaises == Result(TRUE, "py3Dmol", 0)

Views == {ViewOk, ViewRaises}

NoResp == [kind |-> "none", detail |-> "", body |-> EmptyDict, text |-> ""]

Elem(c, kind, text, items, values) ==
    [col |-> c, kind |-> kind, text |-> text, items |-> items, values |-> values]

Widget(c, kind, text) == Elem(c, kind, text, <<>>, <<>>)

\* f"{label} not found." for label "Compound 1" / "Compound 2"
NotFoundText(c) == IF c = 1 THEN "Compound 1 not found." ELSE "Compound 2 not found."

NoSimilarText == "No similar compounds found."

Log(c, reqs) == [i \in 1..Len(reqs) |-> [col |-> c, req |-> reqs[i]]]

Init ==
    /\ pc = "input"
    /\ col = 1
    /\ search = [c \in Cols |-> ""]
    /\ suggestions = [c \in Cols |-> <<>>]
    /\ compound = [c \in Cols |-> ""]
    /\ data = PyNone
    /\ fetched = [c \in Cols |-> NoResp]
    /\ requests = <<>>
    /\ out = <<>>
    /\ fn = "script"
    /\ arg = <<>>
    /\ ret = <<>>

\* the lookup made whatever was typed
SuggestionsFor_Always(text, resp) == get_suggestions(text, resp)

\* get_suggestions(search) if search else []
SuggestionsFor(text, resp) ==
    IF text # "" THEN get_suggestions(text, resp) ELSE Call(<<>>, <<>>)

\* with colA / with colB: the text input, the suggestions, the selector
SearchInputs ==
    /\ pc = "input"
    /\ \E text \in TypedNames, resp \in AutoResps :
         LET call == SuggestionsFor(text, resp)
             options == IF call.ret # <<>>
                        THEN {call.ret[i] : i \in 1..Len(call.ret)}
                        ELSE {text}
         IN  \E choice \in options :
               /\ search' = [search EXCEPT ![col] = text]
               /\ suggestions' = [suggestions EXCEPT ![col] = call.ret]
               /\ compound' = [compound EXCEPT ![col] = choice]
               /\ requests' = requests \o Log(col, call.reqs)
               /\ out' = out \o <<Widget(col, "text_input", text)>>
                             \o (IF call.ret # <<>>
                                 THEN <<Widget(col, "selectbox", choice)>>
                                 ELSE <<>>)
    /\ IF col = 1 THEN pc' = "input" /\ col' = 2 ELSE pc' = "show" /\ col' = 1
    /\ UNCHANGED <<data, fetched, fn, arg, ret>>

\* the script after one column's `if compound:` block
NextColumn == IF col = 1 THEN pc' = "show" /\ col' = 2 ELSE pc' = "done" /\ col' = col

\* `if compound1:` / `if compound2:` with an empty name
ShowSkip ==
    /\ pc = "show"
    /\ compound[col] = ""
    /\ NextColumn
    /\ UNCHANGED <<search, suggestions, compound, data, fetched, requests, out, fn, arg, ret>>

\* a missing `return`: display_info goes on after the message
NotFound_NoReturn ==
    /\ out' = out \o <<Widget(col, "divider", ""),
                       Widget(col, "error", NotFoundText(col)),
                       Widget(col, "heading", capitalize(compound[col])),
                       Widget(col, "properties", "")>>
    /\ pc' = "similar"
    /\ col' = col

\* st.stop() in place of `return`: the script run ends with the message
NotFound_Stops ==
    /\ out' = out \o <<Widget(col, "divider", ""),
                       Widget(col, "error", NotFoundText(col))>>
    /\ pc' = "done"
    /\ col' = col

\* `if not data:` taken: the message, and display_info returns
NotFound ==
    /\ out' = out \o <<Widget(col, "divider", ""),
                       Widget(col, "error", NotFoundText(col))>>
    /\ NextColumn

\* st.divider(), then display_info up to the property list; `data` is
\* display_info's local and is gone when it returns
DisplayFetch ==
    /\ pc = "show"
    /\ compound[col] # ""
    /\ \E resp \in PropResps :
         LET call == fetch_pubchem_data(compound[col], resp) IN
         /\ data' = (IF NotData(call.ret) THEN PyNone ELSE call.ret)
         /\ fetched' = [fetched EXCEPT ![col] = resp]
         /\ requests' = requests \o Log(col, call.reqs)
         /\ IF NotData(call.ret)
            THEN NotFound
            ELSE /\ out' = out \o <<Widget(col, "divider", ""),
                                    Widget(col, "heading", capitalize(compound[col])),
                                    Widget(col, "properties", "")>>
                 /\ pc' = "similar"
                 /\ col' = col
    /\ UNCHANGED <<search, suggestions, compound, fn, arg, ret>>

DisplaySimilar ==
    /\ pc = "similar"
    /\ \E resp \in PageSimilarResps :
         \E call \in suggest_similar(data.d, resp) :
            /\ requests' = requests \o Log(col, call.reqs)
            /\ out' = out \o <<Elem(col, "similar",
                                    IF call.ret # <<>> THEN "" ELSE NoSimilarText,
                                    call.ret, <<>>)>>
    /\ pc' = "safety"
    /\ UNCHANGED <<col, search, suggestions, compound, data, fetched, fn, arg, ret>>

DisplaySafety ==
    /\ pc = "safety"
    /\ \E cidResp \in PageCidResps, docResp \in PageDocResps :
         LET call == fetch_safety_info(compound[col], cidResp, docResp) IN
         /\ requests' = requests \o Log(col, call.reqs)
         /\ out' = out \o <<Widget(col, "info", call.ret)>>
    /\ pc' = "chart"
    /\ UNCHANGED <<col, search, suggestions, compound, data, fetched, fn, arg, ret>>

\* float(data.get(key, 0) or 0) / int(data.get(key, 0) or 0)
ChartValue(d, key) ==
    LET v == Get(d, key, JNum(0)) IN ToNumber(IF Truthy(v) THEN v ELSE JNum(0))

ChartKeys == <<"MolecularWeight", "XLogP", "HBondDonorCount", "HBondAcceptorCount">>

\* the DataFrame and the chart; a value that does not convert raises out of
\* display_info and ends the script run
DisplayChart ==
    /\ pc = "chart"
    /\ LET vals == [i \in 1..Len(ChartKeys) |-> ChartValue(data.d, ChartKeys[i])] IN
       IF \E i \in 1..Len(ChartKeys) : vals[i].raised
       THEN /\ pc' = "crashed"
            /\ out' = out \o <<Widget(col, "exception", "ValueError")>>
       ELSE /\ pc' = "view3d"
            /\ out' = out \o <<Elem(col, "chart", "", <<>>,
                                    [i \in 1..Len(ChartKeys) |-> vals[i].val])>>
    /\ UNCHANGED <<col, search, suggestions, compound, data, fetched, requests, fn, arg, ret>>

Display3D ==
    /\ pc = "view3d"
    /\ \E cidResp \in PageCidResps, sdfResp \in PageSdfResps, view \in {ViewOk} :
         LET call == render_3d(compound[col], cidResp, sdfResp, view) IN
         /\ requests' = requests \o Log(col, call.reqs)
         /\ out' = out \o <<Elem(col, "html", call.ret.detail, <<call.ret.kind>>, <<>>)>>
    /\ data' = PyNone
    /\ NextColumn
    /\ UNCHANGED <<search, suggestions, compound, fetched, fn, arg, ret>>

\* the next interaction runs the script again from the top
Rerun ==
    /\ pc \in {"done", "crashed"}
    /\ pc' = "input"
    /\ col' = 1
    /\ search' = [c \in Cols |-> ""]
    /\ suggestions' = [c \in Cols |-> <<>>]
    /\ compound' = [c \in Cols |-> ""]
    /\ data' = PyNone
    /\ fetched' = [c \in Cols |-> NoResp]
    /\ requests' = <<>>
    /\ out' = <<>>
    /\ UNCHANGED <<fn, arg, ret>>

Next ==
    \/ SearchInputs
    \/ ShowSkip
    \/ DisplayFetch
    \/ DisplaySimilar
    \/ DisplaySafety
    \/ DisplayChart
    \/ Display3D
    \/ Rerun

Spec == Init /\ [][Next]_vars

-----------------------------------------------------------------------------
(* A helper called on its own: the arguments and the responses are drawn in *)
(* the initial state, the call is one step.                                 *)

NoCall == Call(<<>>, <<>>)

HelperInit(name, inputs) ==
    /\ pc = "call"
    /\ col = 1
    /\ search = [c \in Cols |-> ""]
    /\ suggestions = [c \in Cols |-> <<>>]
    /\ compound = [c \in Cols |-> ""]
    /\ data = PyNone
    /\ fetched = [c \in Cols |-> NoResp]
    /\ requests = <<>>
    /\ out = <<>>
    /\ fn = name
    /\ arg \in inputs
    /\ ret = NoCall

(* suggest_similar *)

MaxProps == 7

MaxAnyOrder == 2

MaxWeight == 12

Titled(s) == [Title |-> JStr(s), MolecularWeight |-> JNum(18)]

ItemAlphabet ==
    <<Titled("Water"), Titled("water"), Titled("Ethanol"), Titled("Methanol"),
      Titled("Ammonia"), Titled("Methane"), Titled("Neon"), Titled("Oxidane")>>

\* the lists of n indices into ItemAlphabet, each at least lo, in
\* non-decreasing order: one list for every multiset of items
RECURSIVE SortedIndexLists(_, _)
SortedIndexLists(n, lo) ==
    IF n = 0 THEN {<<>>}
    ELSE UNION {{<<i>> \o t : t \in SortedIndexLists(n - 1, i)} : i \in lo..Len(ItemAlphabet)}

ItemsAt(l) == [k \in 1..Len(l) |-> ItemAlphabet[l[k]]]

\* responses of up to MaxProps items, and every order of up to MaxAnyOrder
ItemLists ==
    UNION {{ItemsAt(l) : l \in SortedIndexLists(n, 1)} : n \in 0..MaxProps}
    \cup UNION {{ItemsAt(l) : l \in [1..n -> 1..Len(ItemAlphabet)]} : n \in 0..MaxAnyOrder}

SimilarFailures ==
    { RaiseResp("ConnectionError"),
      TextResp("<html>503</html>"),
      JsonResp([Fault |-> EmptyDict]),
      JsonResp([PropertyTable |-> EmptyDict]),
      PropertyTableOf(<<[MolecularWeight |-> JNum(18)]>>),
      PropertyTableOf(<<Titled("Neon"), [MolecularWeight |-> JNum(18)]>>),
      PropertyTableOf(<<[Title |-> JNull, MolecularWeight |-> JNum(18)]>>) }

SmallResponses ==
    SimilarFailures \cup
    { PropertyTableOf(<<>>),
      PropertyTableOf(<<Titled("Water"), Titled("Neon")>>),
      PropertyTableOf(<<Titled("WATER"), Titled("Neon"), Titled("Neon"), Titled("water")>>) }

WeightValues ==
    {JNum(w) : w \in (0 - 1)..MaxWeight} \cup {JStr("18"), JStr("abc"), JStr(""), JNull}

TitleValues == {JStr("Water"), JStr("water"), JStr(""), JNull}

\* property records: every weight and title, each present or absent
WeightRecords ==
    {[MolecularWeight |-> w, Title |-> t] : w \in WeightValues, t \in TitleValues}
    \cup {[MolecularWeight |-> w] : w \in WeightValues}
    \cup {[Title |-> t] : t \in TitleValues}
    \cup {EmptyDict}

SimilarInputs ==
    {[data |-> RecFull, resp |-> PropertyTableOf(items)] : items \in ItemLists}
    \cup {[data |-> d, resp |-> r] : d \in WeightRecords, r \in SmallResponses}

SimilarInit == HelperInit("suggest_similar", SimilarInputs)

CallSuggestSimilar ==
    /\ pc = "call"
    /\ fn = "suggest_similar"
    /\ ret' \in suggest_similar(arg.data, arg.resp)
    /\ pc' = "returned"
    /\ UNCHANGED <<col, search, suggestions, compound, data, fetched, requests, out, fn, arg>>

SimilarSpec == SimilarInit /\ [][CallSuggestSimilar]_vars

-----------------------------------------------------------------------------
(* fetch_safety_info called on its own *)

MaxSections == 2

\* the Information lists of the model: absent values, empty lists, one and
\* two entries, one and two text values
InfoLists ==
    { <<>>,
      <<[Name |-> "GHS"]>>,
      <<Entry(<<>>)>>,
      <<Entry(<<[Markup |-> <<>>]>>)>>,
      <<Entry(<<Markup("Corrosive")>>)>>,
      <<Entry(<<Markup("Corrosive"), Markup("Flammable")>>)>>,
      <<Entry(<<>>), Entry(<<Markup("Flammable")>>)>>,
      <<Entry(<<Markup("Irritant")>>), Entry(<<Markup("Flammable")>>)>> }

Sections ==
    {Section(SafetyHeading, info) : info \in InfoLists}
    \cup { [TOCHeading |-> SafetyHeading],
           [Information |-> <<Entry(<<Markup("Oxidane")>>)>>],
           Section("Names and Identifiers", <<>>),
           Section("Names and Identifiers", <<Entry(<<Markup("Oxidane")>>)>>) }

SectionLists == UNION {[1..n -> Sections] : n \in 0..MaxSections}

CidResps ==
    { RaiseResp("ConnectionError"),
      TextResp("<html>503</html>"),
      CidFault,
      JsonResp([IdentifierList |-> EmptyDict]),
      JsonResp([IdentifierList |-> [CID |-> <<>>]]),
      CidFound,
      JsonResp([IdentifierList |-> [CID |-> <<2244, 962>>]]) }

DocFailures ==
    { RaiseResp("ConnectionError"),
      TextResp("<html>503</html>"),
      JsonResp([Fault |-> EmptyDict]),
      JsonResp([Record |-> EmptyDict]) }

SafetyInputs ==
    {[name |-> "water", cid |-> CidFound, doc |-> DocOf(sections)] : sections \in SectionLists}
    \cup {[name |-> "water", cid |-> c, doc |-> d] :
            c \in CidResps,
            d \in DocFailures \cup {DocOf(<<Section(SafetyHeading,
                                                    <<Entry(<<Markup("Corrosive")>>)>>)>>)}}

SafetyInit == HelperInit("fetch_safety_info", SafetyInputs)

CallFetchSafetyInfo ==
    /\ pc = "call"
    /\ fn = "fetch_safety_info"
    /\ ret' = fetch_safety_info(arg.name, arg.cid, arg.doc)
    /\ pc' = "returned"
    /\ UNCHANGED <<col, search, suggestions, compound, data, fetched, requests, out, fn, arg>>

SafetySpec == SafetyInit /\ [][CallFetchSafetyInfo]_vars

-----------------------------------------------------------------------------
(* render_3d called on its own *)

SdfResps ==
    { RaiseResp("ConnectionError"),
      RaiseResp("Read timed out"),
      TextResp("sdf: 3 atoms"),
      TextResp("Status: 404") }

RenderInputs ==
    {[name |-> n, cid |-> c, sdf |-> s, view |-> v] :
        n \in {"water", "aspirin"}, c \in CidResps, s \in SdfResps, v \in Views}

RenderInit == HelperInit("render_3d", RenderInputs)

CallRender3D ==
    /\ pc = "call"
    /\ fn = "render_3d"
    /\ ret' = render_3d(arg.name, arg.cid, arg.sdf, arg.view)
    /\ pc' = "returned"
    /\ UNCHANGED <<col, search, suggestions, compound, data, fetched, requests, out, fn, arg>>

RenderSpec == RenderInit /\ [][CallRender3D]_vars

-----------------------------------------------------------------------------
(* Properties of the script run *)

\* the response cannot be resolved to a property record
IsUnresolved(resp) ==
    \/ resp.kind \in {"raise", "notjson"}
    \/ /\ resp.kind = "json"
       /\ \/ "PropertyTable" \notin DOMAIN resp.body
          \/ "Properties" \notin DOMAIN resp.body.PropertyTable
          \/ resp.body.PropertyTable.Properties = <<>>

\* the response carries a non-empty property record
IsResolved(resp) ==
    /\ resp.kind = "json"
    /\ ~IsUnresolved(resp)
    /\ DOMAIN resp.body.PropertyTable.Properties[1] # {}

RecordOf(resp) == resp.body.PropertyTable.Properties[1]

\* what display_info (and the divider before it) rendered for column c
Rendered(c) ==
    SelectSeq(out, LAMBDA e : e.col = c /\ e.kind \notin {"text_input", "selectbox"})

\* the requests display_info issued for column c
Fetches(c) ==
    SelectSeq(requests, LAMBDA r : r.col = c /\ r.req.kind # "autocomplete")

KindsOf(elems) == [i \in 1..Len(elems) |-> elems[i].kind]

\* C1: a compound the service cannot resolve (the request raises, the
\* response is not JSON, or it lacks PropertyTable.Properties[0]) makes
\* fetch_pubchem_data return None, and display_info renders the single
\* "<label> not found." message without raising: after the property request
\* no other request is issued and nothing else is rendered for that compound.
C1_NotFound ==
    \A c \in Cols :
       IsUnresolved(fetched[c]) =>
          /\ fetch_pubchem_data(compound[c], fetched[c]).ret.t = "none"
          /\ KindsOf(Rendered(c)) = <<"divider", "error">>
          /\ Rendered(c)[2].text = NotFoundText(c)
          /\ Fetches(c) = <<[col |-> c, req |-> Req("property", compound[c], 0, 0, 0)]>>
          /\ ~(pc = "crashed" /\ col = c)

\* the run ended with Compound 1 not found after a request that raised
C1_Witness ==
    /\ pc = "done"
    /\ fetched[1].kind = "raise"
    /\ \E i \in 1..Len(out) : out[i].kind = "error" /\ out[i].col = 1

\* C8: a column whose typed name is empty issues no request of any kind:
\* no suggestion lookup, its compound stays "", and display_info (property,
\* similarity, safety, 3D) is not run for it.
C8_EmptyName ==
    \A c \in Cols :
       search[c] = "" =>
          /\ suggestions[c] = <<>>
          /\ compound[c] = ""
          /\ fetched[c].kind = "none"
          /\ \A i \in 1..Len(requests) : requests[i].col # c
          /\ \A i \in 1..Len(out) : out[i].col = c => out[i].kind = "text_input"

\* the run ended with column 1 left empty and column 2 displayed
C8_Witness ==
    /\ pc = "done"
    /\ search[1] = ""
    /\ search[2] # ""
    /\ fetched[2].kind # "none"
    /\ \E i \in 1..Len(requests) : requests[i].req.kind = "autocomplete"

NonNumberWeight(d) ==
    "MolecularWeight" \in DOMAIN d /\ d["MolecularWeight"].t # "num"

\* C10: when the record's MolecularWeight is present but not a number (a
\* numeric string, null), suggest_similar issues no similarity request and
\* returns [], so display_info shows "No similar compounds found." and goes
\* on to the safety callout.
C10_NonNumberWeight ==
    \A c \in Cols :
       (IsResolved(fetched[c]) /\ NonNumberWeight(RecordOf(fetched[c]))) =>
          /\ \A i \in 1..Len(requests) :
                requests[i].col = c => requests[i].req.kind # "similar"
          /\ \A i \in 1..Len(out) :
                (out[i].col = c /\ out[i].kind = "similar") =>
                   (out[i].text = NoSimilarText /\ out[i].items = <<>>)
          /\ (col = c /\ pc \in {"safety", "chart", "view3d"}) =>
                (\E i \in 1..Len(out) : out[i].col = c /\ out[i].kind = "similar")

\* Compound 1's record had the weight "18" (a string) and its similarity
\* list was rendered
C10_Witness ==
    /\ IsResolved(fetched[1])
    /\ NonNumberWeight(RecordOf(fetched[1]))
    /\ RecordOf(fetched[1])["MolecularWeight"].t = "str"
    /\ \E i \in 1..Len(out) :
          out[i].col = 1 /\ out[i].kind = "similar" /\ out[i].text = NoSimilarText

\* absent, or neither a number nor a string that spells one
NotNumeric(d, key) ==
    \/ key \notin DOMAIN d
    \/ d[key].t = "null"
    \/ d[key].t = "str" /\ d[key].s \notin NumericStrings

\* C5: building the chart from a present record never fails, and each of the
\* four values that is absent or non-numeric is charted as 0.
C5_ChartCoerces ==
    /\ pc # "crashed"
    /\ \A i \in 1..Len(out) :
          out[i].kind = "chart" =>
             \A k \in 1..Len(ChartKeys) :
                NotNumeric(RecordOf(fetched[out[i].col]), ChartKeys[k]) =>
                   out[i].values[k] = 0

\* display_info's own part of a sequence of rendered elements or requests
OfColumn(seq, c) == SelectSeq(seq, LAMBDA e : e.col = c)

\* column c's pipeline is over: nothing to show, the not-found message, or
\* the 3D panel as its last element
Completed(c) ==
    \/ compound[c] = ""
    \/ /\ Rendered(c) # <<>>
       /\ Rendered(c)[Len(Rendered(c))].kind \in {"error", "html"}

C7_Order ==
    \* Compound 2's pipeline begins only when Compound 1's is over
    /\ fetched[2].kind # "none" => Completed(1)
    /\ \A i, j \in 1..Len(requests) :
          (requests[i].col = 2 /\ requests[j].col = 1
           /\ requests[i].req.kind # "autocomplete"
           /\ requests[j].req.kind # "autocomplete") => j < i
    \* Compound 1 not found: only the message for it, and Compound 2 is run
    /\ (pc = "done" /\ compound[1] # "" /\ compound[2] # "" /\ IsUnresolved(fetched[1])) =>
          /\ KindsOf(Rendered(1)) = <<"divider", "error">>
          /\ fetched[2].kind # "none"
          /\ Completed(2)
          /\ Rendered(2) # <<>>

\* while Compound 2's pipeline runs, found or not, what Compound 1 rendered
\* and requested stays as it was
C7_Step ==
    (col = 2 /\ pc \in {"show", "similar", "safety", "chart", "view3d"}) =>
       /\ OfColumn(out', 1) = OfColumn(out, 1)
       /\ OfColumn(requests', 1) = OfColumn(requests, 1)

\* C7: with both names non-empty, a failed property fetch yields only the
\* "not found" message for that compound and does not halt the other one's
\* pipeline; the two pipelines run one after the other, Compound 1's first.
C7_Independent == [](C7_Order) /\ [][C7_Step]_vars

\* Compound 1 was not found and Compound 2 was displayed up to its 3D panel
C7_Witness ==
    /\ pc = "done"
    /\ compound[1] # ""
    /\ IsUnresolved(fetched[1])
    /\ IsResolved(fetched[2])
    /\ \E i \in 1..Len(out) : out[i].col = 2 /\ out[i].kind = "html"

-----------------------------------------------------------------------------
(* Properties of suggest_similar *)

OwnTitle == Get(arg.data, "Title", JStr(""))

\* C2: the list suggest_similar returns never holds a title equal, ignoring
\* case, to the queried compound's own Title, holds no title twice and has
\* at most 5 entries.
C2_SimilarList ==
    (fn = "suggest_similar" /\ pc = "returned") =>
       /\ Len(ret.ret) <= 5
       /\ \A i, j \in 1..Len(ret.ret) : i # j => ret.ret[i] # ret.ret[j]
       /\ \A i \in 1..Len(ret.ret) :
             ~(OwnTitle.t = "str" /\ lower(ret.ret[i]) = lower(OwnTitle.s))

\* the response named the compound itself in another case and six other
\* compounds, and five titles were returned
C2_Witness ==
    /\ fn = "suggest_similar"
    /\ pc = "returned"
    /\ Len(ret.ret) = 5
    /\ LET props == arg.resp.body.PropertyTable.Properties IN
       /\ \E i \in 1..Len(props) :
             props[i].Title.s # OwnTitle.s /\ lower(props[i].Title.s) = lower(OwnTitle.s)
       /\ Cardinality({props[i].Title.s : i \in 1..Len(props)}) >= 7

\* C3: for a non-negative weight (0 when the field is absent) the similarity
\* request uses the window [max(0, weight-10), weight+10]; weight 0 gives
\* [0, 10] and the lower bound is never negative.
C3_MassWindow ==
    (fn = "suggest_similar" /\ pc = "returned") =>
       LET w == Get(arg.data, "MolecularWeight", JNum(0)) IN
       (w.t = "num" /\ w.n >= 0) =>
          /\ Len(ret.reqs) = 1
          /\ ret.reqs[1].kind = "similar"
          /\ ret.reqs[1].lower = (IF w.n - 10 > 0 THEN w.n - 10 ELSE 0)
          /\ ret.reqs[1].upper = w.n + 10
          /\ ret.reqs[1].lower >= 0
          /\ w.n = 0 => (ret.reqs[1].lower = 0 /\ ret.reqs[1].upper = 10)

\* a record of weight 0 was queried with the window [0, 10]
C3_Witness ==
    /\ fn = "suggest_similar"
    /\ pc = "returned"
    /\ "MolecularWeight" \in DOMAIN arg.data
    /\ arg.data["MolecularWeight"] = JNum(0)
    /\ Len(ret.reqs) = 1
    /\ ret.reqs[1].lower = 0
    /\ ret.reqs[1].upper = 10

-----------------------------------------------------------------------------
(* Properties of render_3d *)

\* the detail of the failure of name-to-identifier resolution, "" if none
CidFailure(resp) ==
    IF resp.kind # "json" THEN resp.detail
    ELSE IF "IdentifierList" \notin DOMAIN resp.body THEN "'IdentifierList'"
    ELSE IF "CID" \notin DOMAIN resp.body.IdentifierList THEN "'CID'"
    ELSE IF Len(resp.body.IdentifierList.CID) = 0 THEN "list index out of range"
    ELSE ""

-----------------------------------------------------------------------------
(* Properties of fetch_safety_info *)

\* the sections of the hazard document (none when it has no Record/Section)
DocSections == Get(Get(arg.doc.body, "Record", EmptyDict), "Section", <<>>)

\* the places of the sections headed "Safety and Hazards"
Headed ==
    {i \in 1..Len(DocSections) : Get(DocSections[i], "TOCHeading", "") = "Safety and Hazards"}

InfoOf(i) == Get(DocSections[i], "Information", <<>>)

\* the text values of section i's first information entry
FirstValues(i) ==
    IF InfoOf(i) = <<>> THEN <<>>
    ELSE Get(Get(InfoOf(i)[1], "Value", EmptyDict), "StringWithMarkup", <<>>)

Least(S) == CHOOSE i \in S : \A j \in S : i <= j

SafetyReturned == fn = "fetch_safety_info" /\ pc = "returned"

ServiceFails == CidFailure(arg.cid) # "" \/ arg.doc.kind # "json"

\* C4 as claimed: the fallback is returned when no section is headed "Safety
\* and Hazards", when the section with that heading (the first, if several)
\* has no information entries, or when a service call fails.
C4_FallbackFirstSection ==
    SafetyReturned =>
       ((\/ ServiceFails
         \/ Headed = {}
         \/ InfoOf(Least(Headed)) = <<>>) => ret.ret = "No safety data available.")

\* C4, amended: fetch_safety_info returns exactly the fallback string when a
\* service call fails, when no section is headed "Safety and Hazards", or
\* when no section with that heading has information entries.
C4_Fallback ==
    SafetyReturned =>
       ((\/ ServiceFails
         \/ Headed = {}
         \/ \A i \in Headed : InfoOf(i) = <<>>) => ret.ret = "No safety data available.")

\* the document has a "Safety and Hazards" section without information
\* entries beside a section that has some, and the fallback was returned
C4_Witness ==
    /\ SafetyReturned
    /\ ~ServiceFails
    /\ Headed # {}
    /\ \A i \in Headed : InfoOf(i) = <<>>
    /\ \E i \in 1..Len(DocSections) : Get(DocSections[i], "Information", <<>>) # <<>>
    /\ ret.ret = "No safety data available."

\* C9 as claimed: only the first section headed "Safety and Hazards", its
\* first entry and that entry's first text value count; the result is that
\* value's string when present and the fallback otherwise.
C9_FirstSectionOnly ==
    (SafetyReturned /\ ~ServiceFails) =>
       ret.ret = (IF Headed = {} THEN "No safety data available."
                  ELSE LET v == FirstValues(Least(Headed)) IN
                       IF v = <<>> THEN "No safety data available."
                       ELSE Get(v[1], "String", "No safety data available."))

\* the sections headed "Safety and Hazards" whose first information entry
\* has a text value
Deciding == {i \in Headed : FirstValues(i) # <<>>}

\* C9, amended: the first section headed "Safety and Hazards" whose first
\* information entry has a text value decides: the result is that entry's
\* first text value's string (the fallback when it has none), whatever the
\* later entries, values and sections are; sections with the heading but
\* without such an entry are passed over, and the fallback is returned when
\* there is no deciding section.
C9_FirstMatch ==
    (SafetyReturned /\ ~ServiceFails) =>
       ret.ret = (IF Deciding = {} THEN "No safety data available."
                  ELSE Get(FirstValues(Least(Deciding))[1], "String",
                           "No safety data available."))

\* the deciding section's first entry has two text values and a later
\* section is headed "Safety and Hazards" too; the first value was returned
C9_Witness ==
    /\ SafetyReturned
    /\ ~ServiceFails
    /\ Deciding # {}
    /\ Cardinality(Headed) >= 2
    /\ Least(Deciding) = 1
    /\ Len(FirstValues(1)) = 2
    /\ ret.ret = "Corrosive"

====
